---- MODULE Spec2Model ----
(***************************************************************************)
(* wifi_signal_simulator.py: free-space loss between a moving train and    *)
(* two access points, sampled every millisecond, written to a file.        *)
(*                                                                         *)
(* Numbers.  Python floats are modelled in fixed point: a float is the     *)
(* integer number of thousandths (Milli) of its unit, so that              *)
(* time = float(t) * 0.001 is exactly t thousandths of a second.  The      *)
(* largest finite float is scaled down to FloatMax units; any magnitude    *)
(* beyond it is the one value FInf (IEEE infinity).  Python integers are   *)
(* unbounded and are plain integers here.                                  *)
(*                                                                         *)
(* Strings are sequences of one-character strings.                         *)
(***************************************************************************)
EXTENDS Integers, Sequences, FiniteSets, TLC

(* ------------------------------ bounds -------------------------------- *)

\* main's sample_count parameter (5000 by default), bounded for checking.
sample_count == 3

\* The largest finite float, in whole units (scaled down from 1.8e308).
FloatMax == 20

\* The most command-line arguments (after the program name) considered.
MaxArgs == 4

(* ------------------------- program constants -------------------------- *)

\* 1 / granularity: samples per second (granularity=0.001).
Milli == 1000

\* mantissa_length=3: digits after the decimal point.
mantissa_length == 3

\* wavelength of the "2.4" band, 0.12491 m, in units of 10^-5 m.
Wavelength24 == 12491

\* wavelength of the "5.0" band, 0.05996 m, in units of 10^-5 m.
Wavelength50 == 5996

\* the number of decimal digits of the wavelength literals.
WavelengthDigits == 5

\* constant_factor = 21.984, in thousandths of a dB.
constant_factor == 21984

\* len(sys.argv) != 4
ExpectedArgc == 4

(* ------------------------------ floats -------------------------------- *)

Abs(x) == IF x < 0 THEN -x ELSE x

\* The largest finite float, in thousandths.
FMax == FloatMax * Milli

\* IEEE infinity: every magnitude beyond the largest finite float.
FInf == FMax + 1

IsInf(x) == Abs(x) >= FInf

\* The result of a float addition, subtraction or multiplication: Python
\* raises nothing when one overflows, the result is +-inf.
FRound(x) == IF x > FMax THEN FInf ELSE IF x < -FMax THEN -FInf ELSE x

\* An outcome of a call: a value returned, or an exception raised.
Return(v) == [exc |-> "none", val |-> v]
Raise(e)  == [exc |-> e, val |-> 0]

\* float(n) of a Python integer n, as hypot and the mixed int/float
\* operators do it: OverflowError when n is beyond the floats.
IntToFloat[n \in Int] ==
    IF Abs(n) > FloatMax THEN Raise("OverflowError") ELSE Return(n * Milli)

\* The largest r with r*r <= n, found one binary digit at a time.
ISqrtBits[n \in Nat, r \in Nat, bit \in Nat] ==
    IF bit = 0 THEN r
    ELSE IF (r + bit) * (r + bit) <= n
         THEN ISqrtBits[n, r + bit, bit \div 2]
         ELSE ISqrtBits[n, r, bit \div 2]

ISqrt(n) == ISqrtBits[n, 0, 16384]

\* math.hypot(x, y) of two floats (Python 2: an infinite argument gives
\* inf, a finite result beyond the floats is OverflowError "math range
\* error").
hypot[x \in Int, y \in Int] ==
    IF IsInf(x) \/ IsInf(y) THEN Return(FInf)
    ELSE IF x * x + y * y > FMax * FMax THEN Raise("OverflowError")
    ELSE Return(ISqrt(x * x + y * y))

(* ------------------------------ log10 --------------------------------- *)

Pow10[k \in Nat] == IF k = 0 THEN 1 ELSE 10 * Pow10[k - 1]

\* The number of decimal digits of n >= 0 (1 for 0).
NumDigits[n \in Nat] == IF n < 10 THEN 1 ELSE 1 + NumDigits[n \div 10]

\* n > 0 scaled to a four-digit mantissa, 1000 .. 9999.
Mantissa[n \in Nat] ==
    IF NumDigits[n] >= 4 THEN n \div Pow10[NumDigits[n] - 4]
    ELSE n * Pow10[4 - NumDigits[n]]

\* The fractional part of log10(m / 1000), 1000 <= m < 10000, in 1/1024ths,
\* one binary digit per squaring.
Log10Frac[m \in Nat, bit \in Nat, acc \in Nat] ==
    IF bit = 0 THEN acc
    ELSE LET sq == (m * m) \div 1000
         IN  IF sq >= 10000
             THEN Log10Frac[sq \div 10, bit \div 2, acc + bit]
             ELSE Log10Frac[sq, bit \div 2, acc]

\* log10(n / 10^digits) for an integer n > 0, in thousandths (accurate to
\* about two thousandths: the floats' 53 bits are not modelled).
Log10[n \in Nat, digits \in Nat] ==
    (NumDigits[n] - 1 - digits) * Milli
    + (Log10Frac[Mantissa[n], 512, 0] * Milli) \div 1024

(* ----------------------------- strings -------------------------------- *)

DigitChars == <<"0", "1", "2", "3", "4", "5", "6", "7", "8", "9">>

IsDigit(c) == \E i \in 1..10 : DigitChars[i] = c

DigitVal(c) == (CHOOSE i \in 1..10 : DigitChars[i] = c) - 1

\* Python's isspace() characters that can occur in an argument.
IsSpace(c) == c \in {" ", "\t", "\n"}

\* s without the white space at its start.
LStrip(s) ==
    IF \A k \in 1..Len(s) : IsSpace(s[k]) THEN <<>>
    ELSE SubSeq(s, CHOOSE k \in 1..Len(s) :
                       /\ ~IsSpace(s[k])
                       /\ \A j \in 1..(k - 1) : IsSpace(s[j]),
                Len(s))

\* s without the white space at its end.
RStrip(s) ==
    IF \A k \in 1..Len(s) : IsSpace(s[k]) THEN <<>>
    ELSE SubSeq(s, 1, CHOOSE k \in 1..Len(s) :
                          /\ ~IsSpace(s[k])
                          /\ \A j \in (k + 1)..Len(s) : IsSpace(s[j]))

\* The value of the first k of a string of decimal digits, most
\* significant first.
DigitsPrefix[s \in Seq(STRING), k \in Nat] ==
    IF k = 0 THEN 0 ELSE 10 * DigitsPrefix[s, k - 1] + DigitVal(s[k])

\* The value of a string of decimal digits.
DigitsValue(s) == DigitsPrefix[s, Len(s)]

\* str(n) of an integer n >= 0.
NatToStr[n \in Nat] ==
    IF n < 10 THEN <<DigitChars[n + 1]>>
    ELSE NatToStr[n \div 10] \o <<DigitChars[(n % 10) + 1]>>

\* s padded on the left with "0" to width w.
ZeroPad(s, w) ==
    [k \in 1..(IF w > Len(s) THEN w ELSE Len(s)) |->
        IF k <= w - Len(s) THEN "0" ELSE s[k - (IF w > Len(s) THEN w - Len(s) ELSE 0)]]

(* ------------------------------- int() -------------------------------- *)

\* What is left of s after an optional sign and (Python 2) the white space
\* that may follow it.
AfterSign(s) ==
    IF s # <<>> /\ Head(s) \in {"+", "-"} THEN LStrip(Tail(s)) ELSE s

\* int(s), base 10, of a command-line argument: white space around it is
\* dropped, one sign is allowed, and the rest must be one or more digits;
\* anything else is ValueError "invalid literal for int()".
int[s \in Seq(STRING)] ==
    LET body == RStrip(LStrip(s))
        digits == AfterSign(body)
        neg == body # <<>> /\ Head(body) = "-"
    IN  IF digits # <<>> /\ \A i \in 1..Len(digits) : IsDigit(digits[i])
        THEN Return(IF neg THEN -DigitsValue(digits)
                    ELSE DigitsValue(digits))
        ELSE Raise("ValueError")

(* ---------------------- current_signal_distance ----------------------- *)

\* x * y of two floats.
FMul[x \in Int, y \in Int] ==
    IF IsInf(x) \/ IsInf(y)
    THEN (IF (x < 0) = (y < 0) THEN FInf ELSE -FInf)
    ELSE FRound((x * y) \div Milli)

\* x - y of two floats (never inf - inf here: x comes from an integer).
FSub[x \in Int, y \in Int] ==
    IF IsInf(y) THEN -y ELSE IF IsInf(x) THEN x ELSE FRound(x - y)

\* HypotIntFloat with the cross-track distance left out of the norm.
HypotAlongTrackOnly(a, b) ==
    IF IntToFloat[a].exc # "none" THEN IntToFloat[a]
    ELSE hypot[0, b]

\* hypot(a, b) with a a Python integer and b a float.
HypotIntFloat(a, b) ==
    IF IntToFloat[a].exc # "none" THEN IntToFloat[a]
    ELSE hypot[IntToFloat[a].val, b]

\* AlongTrack with the elapsed time left out of the product.
AlongTrackNoTime(velocity, time) ==
    IF IntToFloat[velocity].exc # "none" THEN IntToFloat[velocity]
    ELSE Return(IntToFloat[velocity].val)

\* velocity * time with velocity a Python integer and time a float.
AlongTrack(velocity, time) ==
    IF IntToFloat[velocity].exc # "none" THEN IntToFloat[velocity]
    ELSE Return(FMul[IntToFloat[velocity].val, time])

\* current_signal_distance with a plain else for AP 2: any number other
\* than 1 is taken for AP 2.
current_signal_distance_else_AP2(AP_number, starting_train_distance, inter_AP_distance, time, velocity) ==
    IF AP_number = 1 THEN
        LET b == AlongTrack(velocity, time)
        IN  IF b.exc # "none" THEN b
            ELSE HypotIntFloat(starting_train_distance, b.val)
    ELSE
        LET vt == AlongTrack(velocity, time)
            ap == IntToFloat[inter_AP_distance]
        IN  IF vt.exc # "none" THEN vt
            ELSE IF ap.exc # "none" THEN ap
            ELSE HypotIntFloat(starting_train_distance, FSub[ap.val, vt.val])

\* current_signal_distance(AP_number, starting_train_distance,
\* inter_AP_distance, time, velocity): distances and velocity are integers
\* (as the command line gives them), time is a float; the distance
\* returned is a float.
current_signal_distance(AP_number, starting_train_distance, inter_AP_distance, time, velocity) ==
    IF AP_number = 1 THEN
        LET b == AlongTrack(velocity, time)
        IN  IF b.exc # "none" THEN b
            ELSE HypotIntFloat(starting_train_distance, b.val)
    ELSE IF AP_number = 2 THEN
        LET vt == AlongTrack(velocity, time)
            ap == IntToFloat[inter_AP_distance]
        IN  IF vt.exc # "none" THEN vt
            ELSE IF ap.exc # "none" THEN ap
            ELSE HypotIntFloat(starting_train_distance, FSub[ap.val, vt.val])
    ELSE Raise("ValueError")

(* ---------------------- compute_free_space_loss ----------------------- *)

\* -20 * log10(wavelength) + 20 * log10(distance) + constant_factor for a
\* finite distance > 0, in thousandths of a dB.
FreeSpaceLoss(distance, wavelength) ==
    -20 * Log10[wavelength, WavelengthDigits] + 20 * Log10[distance, 3]
    + constant_factor

\* The loss of an infinite distance: beyond every finite loss.
LossInf == FreeSpaceLoss(FMax, Wavelength50) + 1

\* compute_free_space_loss refusing every distance whose logarithm is not
\* positive (distance <= 1) instead of every distance that has none.
compute_free_space_loss_log_positive(distance, band) ==
    IF band \notin {"2.4", "5.0"} THEN Raise("ValueError")
    ELSE IF distance <= Milli THEN Raise("ValueError")
    ELSE IF IsInf(distance) THEN Return(LossInf)
    ELSE Return(FreeSpaceLoss(distance,
                    IF band = "2.4" THEN Wavelength24 ELSE Wavelength50))

\* math.log10 raises ValueError "math domain error" for distance <= 0.
compute_free_space_loss(distance, band) ==
    IF band \notin {"2.4", "5.0"} THEN Raise("ValueError")
    ELSE IF distance <= 0 THEN Raise("ValueError")
    ELSE IF IsInf(distance) THEN Return(LossInf)
    ELSE Return(FreeSpaceLoss(distance,
                    IF band = "2.4" THEN Wavelength24 ELSE Wavelength50))

(* --------------------------- format_string ---------------------------- *)

\* x / d rounded to the nearest integer, ties to even, for x >= 0.
RoundDiv[x \in Nat, d \in Nat] ==
    LET q == x \div d
        r == x % d
    IN  IF 2 * r > d \/ (2 * r = d /\ q % 2 = 1) THEN q + 1 ELSE q

\* "{0:.<mantissa_length>f}".format(x) of a loss x: sign, integer part,
\* point, exactly mantissa_length digits.
Format[x \in Int] ==
    IF Abs(x) >= LossInf
    THEN (IF x < 0 THEN <<"-">> ELSE <<>>) \o <<"i", "n", "f">>
    ELSE LET unit == Pow10[mantissa_length]
             n == RoundDiv[Abs(x) * unit, Milli]
         IN  (IF x < 0 THEN <<"-">> ELSE <<>>)
             \o NatToStr[n \div unit] \o <<".">>
             \o ZeroPad(NatToStr[n % unit], mantissa_length)

(* ------------------------------ program ------------------------------- *)

VARIABLES
    argv,               \* sys.argv: the program name, then the arguments
    pc,                 \* where the process is
    ints,               \* how many int() calls have been made
    entered,            \* whether main has been entered
    ap_distance,        \* main's parameters
    train_distance,
    train_velocity,
    t,                  \* the loop's sample index
    AP1_signal_losses,
    AP2_signal_losses,
    i,                  \* the next list entry to write
    fileExists,         \* wifi_signal_simulator.out, in the working directory
    fileData,
    fileOpens,          \* how many times the file has been opened
    fileWas,            \* the file as it was when the process started
    stdout,             \* the lines printed
    exc,                \* the exception the process died of, or "none"
    exit_status,        \* the process's exit status, -1 while it runs
    callIn,             \* a direct call of one of the two functions
    callOut             \* and its outcome

vars == <<argv, pc, ints, entered, ap_distance, train_distance,
          train_velocity, t, AP1_signal_losses, AP2_signal_losses, i,
          fileExists, fileData, fileOpens, fileWas, stdout, exc,
          exit_status, callIn, callOut>>

mainVars == <<ap_distance, train_distance, train_velocity, t,
              AP1_signal_losses, AP2_signal_losses, i>>
fileVars == <<fileExists, fileData, fileOpens>>
callVars == <<callIn, callOut>>

ProgName == <<"w", "s", "s", ".", "p", "y">>

\* Command-line arguments tried: integers small and large, signed and
\* padded, and strings int() rejects.
ArgPool ==
    { <<"0">>, <<"1">>, <<"-", "1">>, <<" ", "+", "2", " ">>,
      <<"1", "5">>, <<"2", "5">>,
      <<"a", "b", "c">>, <<"1", ".", "5">>, <<>> }

\* Every list of at most MaxArgs arguments from the pool.
ArgLists == UNION {[1..n -> ArgPool] : n \in 0..MaxArgs}

\* What a file left by an earlier run may hold.
StaleData == <<"9", "9", ".", "0", "0", "0", " ", "\n", "s", "t", "a", "l", "e">>

NoCall == [fn |-> "none", AP_number |-> 0, d |-> 0, inter |-> 0, time |-> 0,
           velocity |-> 0, distance |-> 0, band |-> ""]
NoOutcome == [done |-> FALSE, exc |-> "none", val |-> 0]

Init ==
    /\ argv \in {<<ProgName>> \o a : a \in ArgLists}
    /\ pc = "start"
    /\ ints = 0
    /\ entered = FALSE
    /\ ap_distance = 0
    /\ train_distance = 0
    /\ train_velocity = 0
    /\ t = 0
    /\ AP1_signal_losses = <<>>
    /\ AP2_signal_losses = <<>>
    /\ i = 0
    /\ fileExists \in BOOLEAN
    /\ fileData = IF fileExists THEN StaleData ELSE <<>>
    /\ fileOpens = 0
    /\ fileWas = [exists |-> fileExists, data |-> fileData]
    /\ stdout = <<>>
    /\ exc = "none"
    /\ exit_status = -1
    /\ callIn = NoCall
    /\ callOut = NoOutcome

\* usage(): four lines, two of them starting with sys.argv[0].
usage ==
    << <<"Usage: \n">>,
       <<argv[1], " <inter-AP-distance> <train-AP-distance> <train-velocity>">>,
       <<"Suggested values for execution: ">>,
       <<argv[1], " 100 10 92">> >>

\* A handler that takes nothing: the try statement without its except.
CaughtNothing(e) == FALSE

\* A handler that takes everything: a bare except.
CaughtAnything(e) == TRUE

\* except ValueError as v: the exceptions the handler around main( ) takes.
Caught(e) == e = "ValueError"

\* An exception e leaves the try statement: the handler prints the usage
\* and raises it again if it is a ValueError; uncaught, the interpreter
\* prints the traceback and exits with status 1.
Propagate(e) ==
    /\ stdout' = IF Caught(e) THEN stdout \o usage ELSE stdout
    /\ exc' = e
    /\ exit_status' = 1
    /\ pc' = "exited"

\* The test as len(sys.argv) < 4: extra arguments are let through.
WrongArgcTooFew == Len(argv) < ExpectedArgc

\* len(sys.argv) != 4
WrongArgc == Len(argv) # ExpectedArgc

\* if len(sys.argv) != 4: usage(); sys.exit(1)
CheckArgc ==
    /\ pc = "start"
    /\ IF WrongArgc
       THEN /\ stdout' = stdout \o usage
            /\ exit_status' = 1
            /\ pc' = "exited"
       ELSE /\ pc' = "try"
            /\ UNCHANGED <<stdout, exit_status>>
    /\ UNCHANGED <<argv, ints, entered, mainVars, fileVars, fileWas, exc,
                   callVars>>

\* main(int(sys.argv[1]), int(sys.argv[2]), int(sys.argv[3])): the three
\* arguments are converted left to right, the first that fails raises,
\* and main is entered when all three have converted.
CallMain ==
    /\ pc = "try"
    /\ LET a1 == int[argv[2]]
           a2 == int[argv[3]]
           a3 == int[argv[4]]
       IN  IF a1.exc # "none"
           THEN ints' = 1 /\ Propagate(a1.exc)
                /\ UNCHANGED <<entered, mainVars>>
           ELSE IF a2.exc # "none"
           THEN ints' = 2 /\ Propagate(a2.exc)
                /\ UNCHANGED <<entered, mainVars>>
           ELSE IF a3.exc # "none"
           THEN ints' = 3 /\ Propagate(a3.exc)
                /\ UNCHANGED <<entered, mainVars>>
           ELSE /\ ints' = 3
                /\ entered' = TRUE
                /\ ap_distance' = a1.val
                /\ train_distance' = a2.val
                /\ train_velocity' = a3.val
                /\ t' = 0
                /\ AP1_signal_losses' = <<>>
                /\ AP2_signal_losses' = <<>>
                /\ pc' = IF 0 < sample_count THEN "AP1" ELSE "open"
                /\ UNCHANGED <<i, stdout, exc, exit_status>>
    /\ UNCHANGED <<argv, fileVars, fileWas, callVars>>

\* The time of the sample after k: a loop that counts from 1.
TimeOfNext(k) == k + 1

\* time = float(t) * granularity, in thousandths of a second.
TimeOf(k) == k

\* The default band of compute_free_space_loss.
DefaultBand == "2.4"

\* One list entry: the distance to the AP at sample k, its loss, formatted.
\* Either call may raise.
SignalLoss(AP_number, k) ==
    LET dist == current_signal_distance(AP_number, train_distance,
                                        ap_distance, TimeOf(k),
                                        train_velocity)
    IN  IF dist.exc # "none" THEN dist
        ELSE LET loss == compute_free_space_loss(dist.val, DefaultBand)
             IN  IF loss.exc # "none" THEN loss
                 ELSE Return(Format[loss.val])

\* The with statement indented into the loop: the file is written after
\* the first sample.
AfterSampleWrite(k) == "open"

\* Where the loop goes after sample k: for t in range(0, sample_count).
AfterSample(k) == IF k + 1 < sample_count THEN "AP1" ELSE "open"

\* The first half of the loop body: AP1's distance, loss and append.
SampleAP1 ==
    /\ pc = "AP1"
    /\ LET r == SignalLoss(1, t)
       IN  IF r.exc # "none"
           THEN Propagate(r.exc) /\ UNCHANGED AP1_signal_losses
           ELSE /\ AP1_signal_losses' = Append(AP1_signal_losses, r.val)
                /\ pc' = "AP2"
                /\ UNCHANGED <<stdout, exc, exit_status>>
    /\ UNCHANGED <<argv, ints, entered, ap_distance, train_distance,
                   train_velocity, t, AP2_signal_losses, i, fileVars,
                   fileWas, callVars>>

\* The second half of the loop body: AP2's, and on to the next sample.
SampleAP2 ==
    /\ pc = "AP2"
    /\ LET r == SignalLoss(2, t)
       IN  IF r.exc # "none"
           THEN Propagate(r.exc) /\ UNCHANGED <<AP2_signal_losses, t>>
           ELSE /\ AP2_signal_losses' = Append(AP2_signal_losses, r.val)
                /\ t' = t + 1
                /\ pc' = AfterSample(t)
                /\ UNCHANGED <<stdout, exc, exit_status>>
    /\ UNCHANGED <<argv, ints, entered, ap_distance, train_distance,
                   train_velocity, AP1_signal_losses, i, fileVars, fileWas,
                   callVars>>

\* What open(name, "a") leaves of the file's contents: all of it.
OpenedForAppend(old) == old

\* What open(name, "w") leaves of the file's contents: nothing.
OpenedData(old) == <<>>

\* with open("wifi_signal_simulator.out", "w") as f: the file is created
\* or truncated.
OpenFile ==
    /\ pc = "open"
    /\ fileExists' = TRUE
    /\ fileData' = OpenedData(fileData)
    /\ fileOpens' = fileOpens + 1
    /\ i' = 1
    /\ pc' = "write1"
    /\ UNCHANGED <<argv, ints, entered, ap_distance, train_distance,
                   train_velocity, t, AP1_signal_losses, AP2_signal_losses,
                   fileWas, stdout, exc, exit_status, callVars>>

\* What one f.write(loss + " ") appends.
Written(loss) == loss \o <<" ">>

\* for loss in AP1_signal_losses: f.write(loss + " "), then f.write("\n")
WriteAP1 ==
    /\ pc = "write1"
    /\ IF i <= Len(AP1_signal_losses)
       THEN /\ fileData' = fileData \o Written(AP1_signal_losses[i])
            /\ i' = i + 1
            /\ pc' = pc
       ELSE /\ fileData' = fileData \o <<"\n">>
            /\ i' = 1
            /\ pc' = "write2"
    /\ UNCHANGED <<argv, ints, entered, ap_distance, train_distance,
                   train_velocity, t, AP1_signal_losses, AP2_signal_losses,
                   fileExists, fileOpens, fileWas, stdout, exc, exit_status,
                   callVars>>

\* for loss in AP2_signal_losses: f.write(loss + " "), then the file is
\* closed as the with statement ends.
WriteAP2 ==
    /\ pc = "write2"
    /\ IF i <= Len(AP2_signal_losses)
       THEN /\ fileData' = fileData \o Written(AP2_signal_losses[i])
            /\ i' = i + 1
            /\ pc' = pc
       ELSE /\ pc' = "exit"
            /\ UNCHANGED <<fileData, i>>
    /\ UNCHANGED <<argv, ints, entered, ap_distance, train_distance,
                   train_velocity, t, AP1_signal_losses, AP2_signal_losses,
                   fileExists, fileOpens, fileWas, stdout, exc, exit_status,
                   callVars>>

\* sys.exit(0): SystemExit travels through the try statement like any
\* exception; unless the handler takes it, the process ends with status 0.
SysExit ==
    /\ pc = "exit"
    /\ IF Caught("SystemExit")
       THEN stdout' = stdout \o usage
       ELSE stdout' = stdout
    /\ exit_status' = 0
    /\ pc' = "exited"
    /\ UNCHANGED <<argv, ints, entered, mainVars, fileVars, fileWas, exc,
                   callVars>>

Next ==
    \/ CheckArgc
    \/ CallMain
    \/ SampleAP1
    \/ SampleAP2
    \/ OpenFile
    \/ WriteAP1
    \/ WriteAP2
    \/ SysExit

Spec == Init /\ [][Next]_vars

\* The runs with exactly three arguments.
InitThreeArgs == Init /\ ~WrongArgc

\* The interpreter runs the one thread until the process ends.
FairSpec == InitThreeArgs /\ [][Next]_vars /\ WF_vars(Next)

(* --------------------------- direct calls ----------------------------- *)

\* Integers passed for distances and velocities: negative, zero, small,
\* large, and beyond the floats.
CallInts == {-25, -1, 0, 1, 2, 15, 25}

\* AP numbers passed: the two valid ones and their neighbours.
CallAPs == -1..3

\* Elapsed times passed, in thousandths of a second.
CallTimes == {0, 1, 1000}

\* Float distances passed to compute_free_space_loss, in thousandths.
CallDistances == {-1000, 0, 1, 1000, 10000, FInf}

\* Bands passed: the two legal values and others.
CallBands == {"2.4", "5.0", "3.0", ""}

DistanceCalls ==
    {[fn |-> "distance", AP_number |-> n, d |-> d, inter |-> a, time |-> k,
      velocity |-> v, distance |-> 0, band |-> ""] :
        n \in CallAPs, d \in CallInts, a \in CallInts, k \in CallTimes,
        v \in CallInts}

LossCalls ==
    {[fn |-> "loss", AP_number |-> 0, d |-> 0, inter |-> 0, time |-> 0,
      velocity |-> 0, distance |-> x, band |-> b] :
        x \in CallDistances, b \in CallBands}

\* A caller about to call one of the two functions; no process runs.
InitCalls ==
    /\ argv = <<ProgName>>
    /\ pc = "call"
    /\ ints = 0
    /\ entered = FALSE
    /\ ap_distance = 0
    /\ train_distance = 0
    /\ train_velocity = 0
    /\ t = 0
    /\ AP1_signal_losses = <<>>
    /\ AP2_signal_losses = <<>>
    /\ i = 0
    /\ fileExists = FALSE
    /\ fileData = <<>>
    /\ fileOpens = 0
    /\ fileWas = [exists |-> FALSE, data |-> <<>>]
    /\ stdout = <<>>
    /\ exc = "none"
    /\ exit_status = -1
    /\ callIn \in DistanceCalls \cup LossCalls
    /\ callOut = NoOutcome

Outcome(r) == [done |-> TRUE, exc |-> r.exc, val |-> r.val]

CallDistance ==
    /\ pc = "call"
    /\ callIn.fn = "distance"
    /\ callOut' = Outcome(current_signal_distance(callIn.AP_number, callIn.d,
                              callIn.inter, callIn.time, callIn.velocity))
    /\ pc' = "returned"
    /\ UNCHANGED <<argv, ints, entered, mainVars, fileVars, fileWas, stdout,
                   exc, exit_status, callIn>>

CallLoss ==
    /\ pc = "call"
    /\ callIn.fn = "loss"
    /\ callOut' = Outcome(compute_free_space_loss(callIn.distance,
                                                  callIn.band))
    /\ pc' = "returned"
    /\ UNCHANGED <<argv, ints, entered, mainVars, fileVars, fileWas, stdout,
                   exc, exit_status, callIn>>

NextCalls == CallDistance \/ CallLoss

SpecCalls == InitCalls /\ [][NextCalls]_vars

(* ------------------------------ claims -------------------------------- *)

FileUntouched ==
    /\ fileOpens = 0
    /\ fileExists = fileWas.exists
    /\ fileData = fileWas.data

\* C1: the file is opened only once every sample of both APs has been
\* computed, and a run that fails during the computation leaves the file
\* as it was (not created, not modified), under Spec.
C1_WriteAfterAllSamples ==
    /\ fileOpens > 0 =>
          /\ exc = "none"
          /\ t = sample_count
          /\ Len(AP1_signal_losses) = sample_count
          /\ Len(AP2_signal_losses) = sample_count
    /\ fileOpens = 0 => FileUntouched
    /\ exc # "none" => FileUntouched

\* A run that failed at AP2's sample after AP1's entry was computed, with
\* a file of an earlier run in place.
C1_Witness ==
    /\ entered
    /\ exc # "none"
    /\ Len(AP1_signal_losses) = 1
    /\ Len(AP2_signal_losses) = 0
    /\ fileWas.exists
    /\ fileData = StaleData

\* C2 as stated: for every three integer arguments, no call the driver
\* makes raises an invalid-domain error (ValueError), under Spec.
C2_NoDomainErrorForAnyIntegers ==
    entered => exc # "ValueError"

\* C2 amended: when train_AP_distance is not zero, no call the driver makes
\* raises ValueError; a ValueError in the driver means train_AP_distance is
\* zero and it is raised by AP1's first sample, under Spec.
C2_NoDomainErrorUnlessZeroDistance ==
    /\ (entered /\ train_distance # 0) => exc # "ValueError"
    /\ (entered /\ exc = "ValueError") =>
          /\ train_distance = 0
          /\ t = 0
          /\ AP1_signal_losses = <<>>

\* A finished run with a non-zero train distance in which AP2's along-track
\* offset is zero at the first sample: only the cross-track distance keeps
\* the logarithm's argument positive.
C2_Witness ==
    /\ entered
    /\ train_distance # 0
    /\ ap_distance = 0
    /\ pc = "exited"
    /\ exit_status = 0

\* C3: with an argument count other than three the usage is printed, the
\* status is 1, no argument is parsed, the driver is not entered and the
\* file is neither created nor modified, under Spec.
C3_WrongArgumentCount ==
    Len(argv) # ExpectedArgc =>
        /\ ints = 0
        /\ ~entered
        /\ exc = "none"
        /\ FileUntouched
        /\ \/ pc = "start" /\ stdout = <<>> /\ exit_status = -1
           \/ pc = "exited" /\ stdout = usage /\ exit_status = 1

\* Four arguments, all of them integers, and the process has ended.
C3_Witness ==
    /\ Len(argv) = ExpectedArgc + 1
    /\ \A k \in 2..Len(argv) : int[argv[k]].exc = "none"
    /\ pc = "exited"

SomeArgumentNotAnInteger ==
    /\ Len(argv) = ExpectedArgc
    /\ \E k \in 2..ExpectedArgc : int[argv[k]].exc # "none"

\* C4: with three arguments of which one is not an integer, the usage is
\* printed, the ValueError is raised again and ends the process with a
\* non-zero status, the driver is never entered, no sample is computed and
\* the file is not created, under Spec.
C4_NonIntegerArgument ==
    SomeArgumentNotAnInteger =>
        /\ ~entered
        /\ AP1_signal_losses = <<>>
        /\ AP2_signal_losses = <<>>
        /\ FileUntouched
        /\ \/ pc \in {"start", "try"} /\ stdout = <<>> /\ exc = "none"
           \/ /\ pc = "exited"
              /\ stdout = usage
              /\ exc = "ValueError"
              /\ exit_status > 0

\* The process has ended on "1.5" as its second argument, the others
\* being integers, with no file in place before.
C4_Witness ==
    /\ Len(argv) = ExpectedArgc
    /\ argv[3] = <<"1", ".", "5">>
    /\ int[argv[2]].exc = "none"
    /\ int[argv[4]].exc = "none"
    /\ pc = "exited"
    /\ ~fileWas.exists

\* The entry the spec requires at sample index k of an AP's list: the
\* formatted loss at elapsed time k * granularity (k thousandths).
ExpectedEntry(AP_number, k) ==
    Format[compute_free_space_loss(
               current_signal_distance(AP_number, train_distance,
                                       ap_distance, k, train_velocity).val,
               "2.4").val]

\* C5: the two lists grow in step, one entry per sample index in ascending
\* order, entry k being the formatted loss at time k * granularity; they
\* have equal length after each iteration and length sample_count on a
\* successful run, under Spec.
C5_OrderedSampleLists ==
    entered =>
        /\ \A k \in 1..Len(AP1_signal_losses) :
              AP1_signal_losses[k] = ExpectedEntry(1, k - 1)
        /\ \A k \in 1..Len(AP2_signal_losses) :
              AP2_signal_losses[k] = ExpectedEntry(2, k - 1)
        /\ pc = "AP1" =>
              Len(AP1_signal_losses) = t /\ Len(AP2_signal_losses) = t
        /\ pc = "AP2" =>
              Len(AP1_signal_losses) = t + 1 /\ Len(AP2_signal_losses) = t
        /\ (pc \in {"open", "write1", "write2", "exit"}
            \/ (pc = "exited" /\ exit_status = 0)) =>
              /\ Len(AP1_signal_losses) = sample_count
              /\ Len(AP2_signal_losses) = sample_count

\* A successful run whose AP2 entries change with time.
C5_Witness ==
    /\ pc = "exited"
    /\ exit_status = 0
    /\ Len(AP2_signal_losses) = sample_count
    /\ AP2_signal_losses[1] # AP2_signal_losses[sample_count]

\* The first k entries of a list, each followed by one space.
LinePrefix[losses \in Seq(Seq(STRING)), k \in Nat] ==
    IF k = 0 THEN <<>>
    ELSE LinePrefix[losses, k - 1] \o losses[k] \o <<" ">>

\* The entries of a list, each followed by one space.
Line(losses) == LinePrefix[losses, Len(losses)]

\* C6: after a successful run the file holds exactly AP1's sample_count
\* entries, each followed by a space, a newline, and AP2's entries, each
\* followed by a space, with nothing after them and nothing of what the
\* file held before, under Spec.
C6_FileContents ==
    (pc = "exited" /\ exit_status = 0) =>
        /\ fileExists
        /\ Len(AP1_signal_losses) = sample_count
        /\ Len(AP2_signal_losses) = sample_count
        /\ fileData = Line(AP1_signal_losses) \o <<"\n">>
                      \o Line(AP2_signal_losses)

\* A successful run over a file an earlier run left.
C6_Witness ==
    /\ pc = "exited"
    /\ exit_status = 0
    /\ fileWas.exists
    /\ fileWas.data = StaleData

DistanceCallAtZero ==
    /\ callOut.done
    /\ callIn.fn = "distance"
    /\ callIn.AP_number = 1
    /\ callIn.time = 0

C8_InvalidSelectorRaises ==
    callOut.done =>
        /\ (callIn.fn = "distance" /\ callIn.AP_number \notin {1, 2}) =>
              callOut.exc = "ValueError"
        /\ (callIn.fn = "loss" /\ callIn.band \notin {"2.4", "5.0"}) =>
              callOut.exc = "ValueError"

\* AP number 3 with arguments that are valid for AP 1 and AP 2.
C8_Witness ==
    /\ callOut.done
    /\ callIn.fn = "distance"
    /\ callIn.AP_number = 3
    /\ callIn.d = 1
    /\ callIn.inter = 2
    /\ callIn.velocity = 1
    /\ callOut.exc = "ValueError"

\* C9: when the three arguments are integers and every sample has been
\* computed, the process ends with status 0, without the usage printed
\* and without an exception, under Spec.
C9_SuccessExitsZero ==
    (entered /\ pc = "exited" /\ Len(AP2_signal_losses) = sample_count) =>
        /\ exit_status = 0
        /\ stdout = <<>>
        /\ exc = "none"
        /\ fileOpens = 1

\* The process has ended after the last sample was computed and the file
\* written.
C9_Witness ==
    /\ entered
    /\ pc = "exited"
    /\ Len(AP2_signal_losses) = sample_count
    /\ fileOpens = 1

\* C10 as stated: whenever train_AP_distance is not zero the process ends
\* with status 0, whatever the other two integers, under Spec.
C10_NonZeroDistanceExitsZero ==
    (entered /\ train_distance # 0 /\ pc = "exited") => exit_status = 0

\* The floats hold the velocity and every distance of the run:
\* hypot(a, b) <= |a| + |b| and |b| <= |inter| + |v| * time, with time
\* below sample_count * granularity.
WithinFloats ==
    /\ Abs(train_velocity) <= FloatMax
    /\ Abs(train_distance) * Milli + Abs(ap_distance) * Milli
          + Abs(train_velocity) * sample_count <= FMax

InRangeNonZeroRun == entered /\ train_distance # 0 /\ WithinFloats

NoFailure ==
    /\ exc = "none"
    /\ t <= sample_count
    /\ pc = "exited" =>
          exit_status = 0 /\ t = sample_count /\ fileOpens = 1

EndedWithFile == pc = "exited" /\ exit_status = 0 /\ fileOpens = 1

\* C10 amended: whenever train_AP_distance is not zero and the floats hold
\* train_velocity and |train_AP_distance| + |inter_AP_distance| +
\* |train_velocity| * sample_count * granularity, no call fails, the loop makes exactly
\* sample_count iterations, and the process comes to end with status 0 and
\* the file written, under FairSpec.
C10_NonZeroDistanceInRangeExitsZero ==
    /\ [](InRangeNonZeroRun => NoFailure)
    /\ InRangeNonZeroRun ~> EndedWithFile

\* A run that ended with status 0 on a negative train distance, with the
\* two APs in one place and the train standing still.
C10_Witness ==
    /\ entered
    /\ train_distance < 0
    /\ ap_distance = 0
    /\ train_velocity = 0
    /\ pc = "exited"
    /\ exit_status = 0
    /\ fileOpens = 1

====
